---- MODULE Spec2Model ----
(***************************************************************************)
(* DeepJ data pipeline (dataset.py): corpus loading, progress encoding,    *)
(* train/validation split, windowed sampling with orphan note-off repair   *)
(* and pitch augmentation.                                                 *)
(*                                                                         *)
(* Python indices are 0-based; a Python list s is the TLA+ sequence whose  *)
(* element s[k] is written s[k + 1].                                       *)
(***************************************************************************)
EXTENDS Integers, Sequences, FiniteSets, TLC

(* ------------------------------ bounds --------------------------------- *)
\* number of note numbers and of time buckets of the event encoding
NUM_NOTES == 2
TIME_QUANTIZATION == 1
\* number of progress categories used by the sampler pipeline
CATEGORY_LEVEL == 2
\* longest composition handed to the sampler
MaxLen == 4
\* progress_tensor inputs
MaxProgLen == 12
MaxCategory == 5
\* validation_split inputs: corpus size, and the fraction split = k / SplitDen
MaxCorpus == 3
SplitDen == 20
\* load inputs
MaxStyles == 2
MaxFiles == 3
SEQ_LEN == 2

(* --------------------------- event encoding ---------------------------- *)
\* constants.py: three contiguous code ranges, note-on, note-off, time shift
NOTE_ON_OFFSET == 0
NOTE_OFF_OFFSET == NOTE_ON_OFFSET + NUM_NOTES
TIME_OFFSET == NOTE_OFF_OFFSET + NUM_NOTES

\* the legal event codes a parsed composition is made of
Codes == NOTE_ON_OFFSET .. (TIME_OFFSET + TIME_QUANTIZATION - 1)

\* dataset.py:148-149 and :181, the tests the code uses to tell the kinds apart
IsNoteOn(evt) == evt >= NOTE_ON_OFFSET /\ evt < NOTE_OFF_OFFSET
IsNoteOff(evt) == evt >= NOTE_OFF_OFFSET /\ evt < NOTE_OFF_OFFSET + NUM_NOTES
IsTimeShift(evt) == evt >= TIME_OFFSET /\ evt < TIME_OFFSET + TIME_QUANTIZATION

\* dataset.py:142, the end-of-track pad
PadEvent == TIME_OFFSET + TIME_QUANTIZATION - 1

(* --------------------------- Python helpers ---------------------------- *)
Min(a, b) == IF a < b THEN a ELSE b
Max(a, b) == IF a > b THEN a ELSE b

\* a slice bound k of a list of length n: negative counts from the end, and
\* the result is clamped into 0..n
NormIdx(k, n) == IF k < 0 THEN Max(k + n, 0) ELSE Min(k, n)

\* s[a:b]
PySlice(s, a, b) ==
  LET lo == NormIdx(a, Len(s))
      hi == NormIdx(b, Len(s))
  IN  IF hi <= lo THEN << >> ELSE SubSeq(s, lo + 1, hi)

\* all sequences over S of length lo..hi
SeqsOf(S, lo, hi) == UNION { [1..n -> S] : n \in lo..hi }

(* --------------------------- progress_tensor --------------------------- *)
\* np.zeros((n, C))
Zeros(n, C) == [row \in 1..n |-> [col \in 1..C |-> 0]]

\* progress[a:b, c] = 1
SetColumn(progress, a, b, c) ==
  LET n  == Len(progress)
      lo == NormIdx(a, n)
      hi == NormIdx(b, n)
  IN  [row \in 1..n |->
        IF row - 1 >= lo /\ row - 1 < hi
          THEN [progress[row] EXCEPT ![c + 1] = 1]
          ELSE progress[row]]

\* the loop over the categories, from category c on
RECURSIVE CategoryLoop(_, _, _, _)
CategoryLoop(progress, c, step, C) ==
  IF c >= C THEN progress
  ELSE CategoryLoop(SetColumn(progress, c * step, c * step + step, c),
                    c + 1, step, C)

\* the start of the remainder slice progress[-(n % C):, C - 1]
RemainderStart(n, C) == -(n % C)

progress_tensor(n, C) ==
  LET step == n \div C
      looped == CategoryLoop(Zeros(n, C), 0, step, C)
  IN  SetColumn(looped, RemainderStart(n, C), n, C - 1)

(* ------------------------------- augment ------------------------------- *)
\* evt + transpose if evt < TIME_OFFSET else evt
AugmentEvt(evt, t) == IF evt < TIME_OFFSET THEN evt + t ELSE evt

augment(seq, t) ==
  IF t = 0 THEN seq ELSE [k \in 1..Len(seq) |-> AugmentEvt(seq[k], t)]

(* ---------------------------- random_subseq ---------------------------- *)
\* random.randint(a, b): the values it can return; an empty set is ValueError
Randint(a, b) == a .. b

\* the upper end of the range the start index is drawn from
IndexHigh(len, L) == len - 1 - L

\* Exhausted with the test off by one: the last event is never read
ExhaustedEarly(cur, seq) == cur >= Len(seq) - 1

\* the generator's test for having run off the composition
Exhausted(cur, seq) == cur >= Len(seq)

\* a note off for a note that is not sounding is skipped
IsOrphan(evt, ons) == IsNoteOff(evt) /\ (evt - NOTE_OFF_OFFSET) \notin ons

\* NoteOnsAfter without note_ons.remove(note): a closed note stays open
NoteOnsAfterNoRemove(evt, ons) ==
  IF evt < NOTE_OFF_OFFSET + NUM_NOTES
    THEN IF evt >= NOTE_OFF_OFFSET
           THEN ons
           ELSE ons \cup {evt - NOTE_ON_OFFSET}
    ELSE ons

\* the sounding set after emitting evt
NoteOnsAfter(evt, ons) ==
  IF evt < NOTE_OFF_OFFSET + NUM_NOTES
    THEN IF evt >= NOTE_OFF_OFFSET
           THEN ons \ {evt - NOTE_OFF_OFFSET}
           ELSE ons \cup {evt - NOTE_ON_OFFSET}
    ELSE ons

\* the cursor after a skipped event
SkipAdvance(cur) == cur + 1

\* ProgressSlice taken one row late
ProgressSliceShifted(rows, a, b) == PySlice(rows, a + 1, b + 1)

\* progress[start_index:end_index]
ProgressSlice(rows, a, b) == PySlice(rows, a, b)

(* --------------------------- validation_split -------------------------- *)
\* random.shuffle(r): every order of range(n)
Shuffles(n) ==
  { p \in [1..n -> 0..(n - 1)] : \A a, b \in 1..n : a # b => p[a] # p[b] }

\* int(math.ceil(len(r) * split)) for split = k / SplitDen
NumVal(n, k) == (n * k + SplitDen - 1) \div SplitDen

\* r[:-num_val]
TrainIndicies(perm, nv) == PySlice(perm, 0, -nv)

\* r[-num_val:]
ValIndicies(perm, nv) == PySlice(perm, -nv, Len(perm))

\* SamplerRaises with the emptiness test lost
SamplerRaisesNever(seqs) == Len(seqs) < 0

\* sampler(): if len(seqs) == 0: raise
SamplerRaises(seqs) == Len(seqs) = 0

(* -------------------------------- load --------------------------------- *)
\* what load_midi does with one file: it raises, or returns len events
FileOutcomes ==
  { [raises |-> TRUE, len |-> 0] } \cup
  { [raises |-> FALSE, len |-> n] : n \in (SEQ_LEN - 1)..SEQ_LEN }

\* if len(seq) >= SEQ_LEN
LongEnough(n) == n >= SEQ_LEN


VARIABLES
  \* sample()
  pc,             \* position inside sample()
  sequence,       \* seqs[seq_id], the composition picked by sample()
  seq_len,        \* the requested window length
  progress,       \* progresses[seq_id]
  index,          \* random_subseq: the start drawn
  i,              \* generator: output slot
  current,        \* generator: source cursor
  note_ons,       \* generator: sounding notes
  window,         \* the events yielded so far
  srcpos,         \* per slot, the value of current when the slot was filled
  padded,         \* per slot, whether the padding branch filled it
  nskip,          \* the number of events the generator has skipped
  skips,          \* per slot, the value of nskip when the slot was filled
  start_index,
  end_index,
  transpose,      \* augment: the transposition drawn
  tensor,         \* gen_to_tensor(augment(subseq))
  progress_slice, \* progress[start_index:end_index]
  \* progress_tensor()
  pt_pc,
  pt_len,         \* len(seq)
  pt_level,       \* the category count
  pt_progress,    \* the matrix returned
  \* validation_split() and the samplers built on its result
  vs_pc,
  vs_len,         \* len(seqs)
  vs_split,       \* split = vs_split / SplitDen
  r,              \* the shuffled indices
  num_val,
  train_indicies,
  val_indicies,
  train_sampler,  \* sampler(train): "none", "ready" or "raised"
  val_sampler,    \* sampler(val)
  \* load()
  ld_pc,
  files,          \* per style, what load_midi does with each of its files
  ld_style,       \* the style the outer loop is at
  ld_file,        \* the file the inner loop is at
  style_seq,      \* accepted compositions of the style, as (file, length)
  seq_len_sum,
  style_seqs

sampleVars == << pc, sequence, seq_len, progress, index, i, current, note_ons,
                 window, srcpos, padded, nskip, skips, start_index,
                 end_index, transpose, tensor, progress_slice >>
ptVars == << pt_pc, pt_len, pt_level, pt_progress >>
vsVars == << vs_pc, vs_len, vs_split, r, num_val, train_indicies,
             val_indicies, train_sampler, val_sampler >>
ldVars == << ld_pc, files, ld_style, ld_file, style_seq, seq_len_sum,
             style_seqs >>

vars == << sampleVars, ptVars, vsVars, ldVars >>

\* the parts of the state a specification does not exercise
SampleIdle ==
  /\ pc = "idle" /\ sequence = << >> /\ seq_len = 0 /\ progress = << >>
  /\ index = 0 /\ i = 0 /\ current = 0 /\ note_ons = {}
  /\ window = << >> /\ srcpos = << >> /\ padded = << >>
  /\ nskip = 0 /\ skips = << >>
  /\ start_index = 0 /\ end_index = 0
  /\ transpose = 0 /\ tensor = << >> /\ progress_slice = << >>
ProgressIdle ==
  pt_pc = "idle" /\ pt_len = 0 /\ pt_level = 0 /\ pt_progress = << >>
SplitIdle ==
  /\ vs_pc = "idle" /\ vs_len = 0 /\ vs_split = 0 /\ r = << >> /\ num_val = 0
  /\ train_indicies = << >> /\ val_indicies = << >>
  /\ train_sampler = "none" /\ val_sampler = "none"
LoadIdle ==
  /\ ld_pc = "idle" /\ files = << >> /\ ld_style = 0 /\ ld_file = 0
  /\ style_seq = << >> /\ seq_len_sum = 0 /\ style_seqs = << >>

(* ------------------------------ sample() ------------------------------- *)
Init ==
  /\ sequence \in SeqsOf(Codes, 1, MaxLen)
  /\ seq_len \in 1..Len(sequence)
  /\ progress = progress_tensor(Len(sequence), CATEGORY_LEVEL)
  /\ pc = "random_subseq"
  /\ index = 0 /\ i = 0 /\ current = 0 /\ note_ons = {}
  /\ window = << >> /\ srcpos = << >> /\ padded = << >>
  /\ nskip = 0 /\ skips = << >>
  /\ start_index = 0 /\ end_index = 0
  /\ transpose = 0 /\ tensor = << >> /\ progress_slice = << >>
  /\ ProgressIdle /\ SplitIdle /\ LoadIdle

\* random.randint over an empty range raises ValueError
RandintFails ==
  /\ pc = "random_subseq"
  /\ Randint(0, IndexHigh(Len(sequence), seq_len)) = {}
  /\ pc' = "ValueError"
  /\ UNCHANGED << sequence, seq_len, progress, index, i, current, note_ons,
                  window, srcpos, padded, nskip, skips, start_index,
                  end_index, transpose, tensor, progress_slice >>
  /\ UNCHANGED << ptVars, vsVars, ldVars >>

\* random_subseq up to its return; the generator starts at the drawn index
ChooseIndex ==
  /\ pc = "random_subseq"
  /\ \E idx \in Randint(0, IndexHigh(Len(sequence), seq_len)) :
       /\ index' = idx
       /\ current' = idx
       /\ start_index' = idx
       /\ end_index' = idx + seq_len
  /\ i' = 0
  /\ note_ons' = {}
  /\ pc' = "generator"
  /\ UNCHANGED << sequence, seq_len, progress, window, srcpos, padded, nskip,
                  skips, transpose, tensor, progress_slice >>
  /\ UNCHANGED << ptVars, vsVars, ldVars >>

\* generator: the source is used up, pad with maximum silence
Pad ==
  /\ pc = "generator"
  /\ i < seq_len
  /\ Exhausted(current, sequence)
  /\ window' = Append(window, PadEvent)
  /\ srcpos' = Append(srcpos, current)
  /\ padded' = Append(padded, TRUE)
  /\ skips' = Append(skips, nskip)
  /\ i' = i + 1
  /\ current' = current + 1
  /\ UNCHANGED << pc, sequence, seq_len, progress, index, note_ons, nskip,
                  start_index, end_index, transpose, tensor, progress_slice >>
  /\ UNCHANGED << ptVars, vsVars, ldVars >>

\* generator: a note off before its note on is ignored
Skip ==
  /\ pc = "generator"
  /\ i < seq_len
  /\ ~Exhausted(current, sequence)
  /\ IsOrphan(sequence[current + 1], note_ons)
  /\ current' = SkipAdvance(current)
  /\ nskip' = nskip + 1
  /\ UNCHANGED << pc, sequence, seq_len, progress, index, i, note_ons, window,
                  srcpos, padded, skips, start_index, end_index, transpose,
                  tensor, progress_slice >>
  /\ UNCHANGED << ptVars, vsVars, ldVars >>

\* generator: yield the event under the cursor
Emit ==
  /\ pc = "generator"
  /\ i < seq_len
  /\ ~Exhausted(current, sequence)
  /\ LET evt == sequence[current + 1] IN
       /\ ~IsOrphan(evt, note_ons)
       /\ note_ons' = NoteOnsAfter(evt, note_ons)
       /\ window' = Append(window, evt)
  /\ srcpos' = Append(srcpos, current)
  /\ padded' = Append(padded, FALSE)
  /\ skips' = Append(skips, nskip)
  /\ i' = i + 1
  /\ current' = current + 1
  /\ UNCHANGED << pc, sequence, seq_len, progress, index, nskip, start_index,
                  end_index, transpose, tensor, progress_slice >>
  /\ UNCHANGED << ptVars, vsVars, ldVars >>

\* the rest of sample(): the window is augmented and the progress sliced
Sample ==
  /\ pc = "generator"
  /\ i >= seq_len
  /\ \E t \in Randint(-4, 4) :
       /\ transpose' = t
       /\ tensor' = augment(window, t)
  /\ progress_slice' = ProgressSlice(progress, start_index, end_index)
  /\ pc' = "done"
  /\ UNCHANGED << sequence, seq_len, progress, index, i, current, note_ons,
                  window, srcpos, padded, nskip, skips, start_index,
                  end_index >>
  /\ UNCHANGED << ptVars, vsVars, ldVars >>

Next == RandintFails \/ ChooseIndex \/ Pad \/ Skip \/ Emit \/ Sample

Spec == Init /\ [][Next]_vars

(* -------------------------- progress_tensor() -------------------------- *)
InitProgress ==
  /\ pt_len \in 1..MaxProgLen
  /\ pt_level \in 1..MaxCategory
  /\ pt_pc = "call"
  /\ pt_progress = << >>
  /\ SampleIdle /\ SplitIdle /\ LoadIdle

ProgressTensor ==
  /\ pt_pc = "call"
  /\ pt_progress' = progress_tensor(pt_len, pt_level)
  /\ pt_pc' = "done"
  /\ UNCHANGED << pt_len, pt_level >>
  /\ UNCHANGED << sampleVars, vsVars, ldVars >>

NextProgress == ProgressTensor

SpecProgress == InitProgress /\ [][NextProgress]_vars

(* ------------------- validation_split() and sampler() ------------------ *)
InitSplit ==
  /\ vs_len \in 0..MaxCorpus
  /\ vs_split \in 0..SplitDen
  /\ vs_pc = "shuffle"
  /\ r = << >> /\ num_val = 0
  /\ train_indicies = << >> /\ val_indicies = << >>
  /\ train_sampler = "none" /\ val_sampler = "none"
  /\ SampleIdle /\ ProgressIdle /\ LoadIdle

Shuffle ==
  /\ vs_pc = "shuffle"
  /\ r' \in Shuffles(vs_len)
  /\ vs_pc' = "slice"
  /\ UNCHANGED << vs_len, vs_split, num_val, train_indicies, val_indicies,
                  train_sampler, val_sampler >>
  /\ UNCHANGED << sampleVars, ptVars, ldVars >>

Slice ==
  /\ vs_pc = "slice"
  /\ num_val' = NumVal(Len(r), vs_split)
  /\ train_indicies' = TrainIndicies(r, num_val')
  /\ val_indicies' = ValIndicies(r, num_val')
  /\ vs_pc' = "assert"
  /\ UNCHANGED << vs_len, vs_split, r, train_sampler, val_sampler >>
  /\ UNCHANGED << sampleVars, ptVars, ldVars >>

\* the two assertions on the sizes
SizesAsserted ==
  /\ Len(val_indicies) = num_val
  /\ Len(train_indicies) = Len(r) - num_val

AssertFails ==
  /\ vs_pc = "assert"
  /\ ~SizesAsserted
  /\ vs_pc' = "AssertionError"
  /\ UNCHANGED << vs_len, vs_split, r, num_val, train_indicies, val_indicies,
                  train_sampler, val_sampler >>
  /\ UNCHANGED << sampleVars, ptVars, ldVars >>

\* the triples are built from the index lists and returned
SplitReturn ==
  /\ vs_pc = "assert"
  /\ SizesAsserted
  /\ vs_pc' = "returned"
  /\ UNCHANGED << vs_len, vs_split, r, num_val, train_indicies, val_indicies,
                  train_sampler, val_sampler >>
  /\ UNCHANGED << sampleVars, ptVars, ldVars >>

\* sampler(train)
SamplerTrain ==
  /\ vs_pc = "returned"
  /\ train_sampler = "none"
  /\ train_sampler' = IF SamplerRaises(train_indicies) THEN "raised"
                                                       ELSE "ready"
  /\ UNCHANGED << vs_pc, vs_len, vs_split, r, num_val, train_indicies,
                  val_indicies, val_sampler >>
  /\ UNCHANGED << sampleVars, ptVars, ldVars >>

\* sampler(val)
SamplerVal ==
  /\ vs_pc = "returned"
  /\ val_sampler = "none"
  /\ val_sampler' = IF SamplerRaises(val_indicies) THEN "raised" ELSE "ready"
  /\ UNCHANGED << vs_pc, vs_len, vs_split, r, num_val, train_indicies,
                  val_indicies, train_sampler >>
  /\ UNCHANGED << sampleVars, ptVars, ldVars >>

NextSplit ==
  Shuffle \/ Slice \/ AssertFails \/ SplitReturn \/ SamplerTrain \/ SamplerVal

SpecSplit == InitSplit /\ [][NextSplit]_vars

(* ------------------------------- load() -------------------------------- *)
InitLoad ==
  /\ files \in SeqsOf(SeqsOf(FileOutcomes, 0, MaxFiles), 0, MaxStyles)
  /\ ld_pc = "style"
  /\ ld_style = 0 /\ ld_file = 0
  /\ style_seq = << >> /\ seq_len_sum = 0 /\ style_seqs = << >>
  /\ SampleIdle /\ ProgressIdle /\ SplitIdle

\* for style in styles: a new style starts
LoadStyle ==
  /\ ld_pc = "style"
  /\ ld_style < Len(files)
  /\ style_seq' = << >>
  /\ seq_len_sum' = 0
  /\ ld_file' = 0
  /\ ld_pc' = "file"
  /\ UNCHANGED << files, ld_style, style_seqs >>
  /\ UNCHANGED << sampleVars, ptVars, vsVars >>

\* load_midi raises, the exception is caught and printed
LoadFileError ==
  /\ ld_pc = "file"
  /\ ld_file < Len(files[ld_style + 1])
  /\ files[ld_style + 1][ld_file + 1].raises
  /\ ld_file' = ld_file + 1
  /\ UNCHANGED << ld_pc, files, ld_style, style_seq, seq_len_sum, style_seqs >>
  /\ UNCHANGED << sampleVars, ptVars, vsVars >>

\* the composition is too short and is ignored
LoadFileShort ==
  /\ ld_pc = "file"
  /\ ld_file < Len(files[ld_style + 1])
  /\ LET f == files[ld_style + 1][ld_file + 1] IN
       ~f.raises /\ ~LongEnough(f.len)
  /\ ld_file' = ld_file + 1
  /\ UNCHANGED << ld_pc, files, ld_style, style_seq, seq_len_sum, style_seqs >>
  /\ UNCHANGED << sampleVars, ptVars, vsVars >>

\* the composition is kept
LoadFileKeep ==
  /\ ld_pc = "file"
  /\ ld_file < Len(files[ld_style + 1])
  /\ LET f == files[ld_style + 1][ld_file + 1] IN
       /\ ~f.raises /\ LongEnough(f.len)
       /\ style_seq' = Append(style_seq, << ld_file, f.len >>)
       /\ seq_len_sum' = seq_len_sum + f.len
  /\ ld_file' = ld_file + 1
  /\ UNCHANGED << ld_pc, files, ld_style, style_seqs >>
  /\ UNCHANGED << sampleVars, ptVars, vsVars >>

\* the style's list is appended and its average event count printed
LoadStyleEnd ==
  /\ ld_pc = "file"
  /\ ld_file >= Len(files[ld_style + 1])
  /\ style_seqs' = Append(style_seqs, style_seq)
  /\ Len(style_seq) # 0
  /\ ld_style' = ld_style + 1
  /\ ld_pc' = "style"
  /\ UNCHANGED << files, ld_file, style_seq, seq_len_sum >>
  /\ UNCHANGED << sampleVars, ptVars, vsVars >>

\* seq_len_sum / len(style_seq) with an empty style_seq
LoadAverageFails ==
  /\ ld_pc = "file"
  /\ ld_file >= Len(files[ld_style + 1])
  /\ style_seqs' = Append(style_seqs, style_seq)
  /\ Len(style_seq) = 0
  /\ ld_pc' = "ZeroDivisionError"
  /\ UNCHANGED << files, ld_style, ld_file, style_seq, seq_len_sum >>
  /\ UNCHANGED << sampleVars, ptVars, vsVars >>

LoadReturn ==
  /\ ld_pc = "style"
  /\ ld_style >= Len(files)
  /\ ld_pc' = "returned"
  /\ UNCHANGED << files, ld_style, ld_file, style_seq, seq_len_sum,
                  style_seqs >>
  /\ UNCHANGED << sampleVars, ptVars, vsVars >>

NextLoad ==
  \/ LoadStyle \/ LoadFileError \/ LoadFileShort \/ LoadFileKeep
  \/ LoadStyleEnd \/ LoadAverageFails \/ LoadReturn

SpecLoad == InitLoad /\ [][NextLoad]_vars

(* ======================================================================= *)
(*                               Properties                                *)
(* ======================================================================= *)

(* ----------------------------- Spec: sample ---------------------------- *)

\* C1: a window never holds a NoteOff for note n at a slot unless a NoteOn
\* for n sits at an earlier slot of the same window with no NoteOff for n
\* between the two (no orphan NoteOff is emitted).
C1_NoOrphanNoteOff ==
  \A k \in 1..Len(window) :
    IsNoteOff(window[k]) =>
      \E j \in 1..(k - 1) :
        /\ window[j] = NOTE_ON_OFFSET + (window[k] - NOTE_OFF_OFFSET)
        /\ \A m \in (j + 1)..(k - 1) : window[m] # window[k]

\* a finished window in which an orphan was skipped and a later NoteOff of a
\* note opened inside the window was emitted
C1_Witness ==
  /\ pc = "done"
  /\ \E k \in 1..Len(window) : IsNoteOff(window[k]) /\ skips[k] > 0

\* C2: for every composition and every L with 1 <= L <= len(seq), L = len(seq)
\* included, random_subseq terminates normally and gives exactly L events and
\* a range [start, start + L) inside [0, len(seq)].
C2_WindowForEveryLength ==
  /\ pc # "ValueError"
  /\ pc = "done" =>
       /\ Len(window) = seq_len
       /\ start_index >= 0
       /\ end_index = start_index + seq_len
       /\ end_index <= Len(sequence)

\* C5: with the transposition t drawn for the window, NoteOn(n) becomes
\* NoteOn(n + t), NoteOff(n) becomes NoteOff(n + t) (the kind is kept) and a
\* TimeShift is left as it is.
C5_TransposeKeepsKind ==
  pc = "done" =>
    /\ Len(tensor) = Len(window)
    /\ \A k \in 1..Len(window) :
         /\ IsNoteOn(window[k]) =>
              tensor[k] = window[k] + transpose /\ IsNoteOn(tensor[k])
         /\ IsNoteOff(window[k]) =>
              tensor[k] = window[k] + transpose /\ IsNoteOff(tensor[k])
         /\ IsTimeShift(window[k]) => tensor[k] = window[k]

\* C8: the starts random_subseq can choose are exactly 0..(len(seq) - L):
\* each of them can be drawn, len(seq) - L included, and nothing else is.
C8_StartRange ==
  /\ pc = "random_subseq" =>
       \A s \in (-1)..(Len(sequence) + 1) :
         (ENABLED (ChooseIndex /\ index' = s))
           <=> (s \in 0..(Len(sequence) - seq_len))
  /\ pc \in {"generator", "done"} =>
       index \in 0..(Len(sequence) - seq_len)

\* C9, the slots: a slot is a pad exactly when the cursor had reached
\* len(seq) when it was filled, a pad holds the maximum-silence code, and
\* every slot after a pad is a pad.
C9_PadSlots ==
  \A k \in 1..Len(window) :
    /\ padded[k] <=> (srcpos[k] >= Len(sequence))
    /\ padded[k] => window[k] = PadEvent
    /\ \A m \in k..Len(window) : padded[k] => padded[m]

\* C9, the step: a step that fills a slot by padding leaves note_ons alone.
C9_PadStep ==
  (Len(padded') = Len(padded) + 1 /\ padded'[Len(padded')])
    => note_ons' = note_ons

\* C9: a slot is filled by the padding branch iff the cursor has reached
\* len(seq), pads form a suffix of the window, and no padding step changes
\* the sounding-note set.
C9_Padding == [](C9_PadSlots) /\ [][C9_PadStep]_vars

\* a finished window with a slot read from the composition, then a pad,
\* while a note is sounding
C9_Witness ==
  /\ pc = "done"
  /\ note_ons # {}
  /\ \E k \in 1..(Len(window) - 1) : ~padded[k] /\ padded[k + 1]

\* C10 as stated: the progress row returned for a slot that holds an event
\* of the composition is the row of the position the event was read from.
C10_RowOfSourcePosition ==
  pc = "done" =>
    /\ Len(progress_slice) = Len(window)
    /\ \A k \in 1..Len(window) :
         ~padded[k] => progress_slice[k] = progress[srcpos[k] + 1]

\* C10 amended: the progress row returned for slot k is the row of position
\* start + k; that is the position the slot's event was read from when no
\* orphan was skipped before the slot, and skips[k] positions before it
\* otherwise.
C10_RowOfSlotPosition ==
  pc = "done" =>
    /\ Len(progress_slice) = seq_len
    /\ \A k \in 1..seq_len :
         /\ progress_slice[k] = progress[start_index + k]
         /\ ~padded[k] => srcpos[k] = start_index + (k - 1) + skips[k]
         /\ (~padded[k] /\ skips[k] = 0) =>
              progress_slice[k] = progress[srcpos[k] + 1]

\* a sample with a slot filled without a skip and a later slot whose event
\* was read, after a skip, from a position with another progress row
C10_Witness ==
  /\ pc = "done"
  /\ \E j, k \in 1..Len(window) :
       /\ j < k
       /\ ~padded[j] /\ skips[j] = 0
       /\ ~padded[k] /\ skips[k] > 0
       /\ progress_slice[k] # progress[srcpos[k] + 1]

(* ----------------------- SpecProgress: the matrix ---------------------- *)

OneHot(row) ==
  /\ \A c \in 1..Len(row) : row[c] \in {0, 1}
  /\ Cardinality({ c \in 1..Len(row) : row[c] = 1 }) = 1

\* C3: for every length N >= 1 and category count C >= 1, every row of the
\* matrix progress_tensor returns has exactly one 1, in a column of [0, C),
\* and 0 elsewhere.
C3_RowsOneHot ==
  pt_pc = "done" =>
    /\ Len(pt_progress) = pt_len
    /\ \A row \in 1..pt_len :
         Len(pt_progress[row]) = pt_level /\ OneHot(pt_progress[row])

(* ------------------------ SpecSplit: the split ------------------------- *)

\* the least integer not below n * k / SplitDen
CeilFraction(n, k) ==
  CHOOSE c \in 0..(n * k + 1) :
    c * SplitDen >= n * k /\ (c - 1) * SplitDen < n * k

Elems(s) == { s[k] : k \in 1..Len(s) }

\* C4: for a corpus of size M and a fraction f in [0, 1] the validation
\* indices are ceil(M * f) many, the training indices M - ceil(M * f), the
\* two are disjoint and cover [0, M), and the two assertions never fail.
C4_SplitSizes ==
  /\ vs_pc # "AssertionError"
  /\ vs_pc \in {"assert", "returned"} =>
       /\ Len(val_indicies) = CeilFraction(vs_len, vs_split)
       /\ Len(train_indicies) = vs_len - CeilFraction(vs_len, vs_split)
       /\ Elems(train_indicies) \cap Elems(val_indicies) = {}
       /\ Elems(train_indicies) \cup Elems(val_indicies) = 0..(vs_len - 1)

\* C6 as stated: validation_split never returns normally with an empty
\* training or validation set.
C6_SplitNeverReturnsEmpty ==
  vs_pc = "returned" =>
    Len(train_indicies) > 0 /\ Len(val_indicies) > 0

\* C6 amended: validation_split itself raises nothing for an empty set; it
\* is sampler() that raises, exactly when the set it is given is empty, so
\* that no sampler is ever ready over an empty set.
C6_SamplerRejectsEmpty ==
  /\ train_sampler = "ready" => Len(train_indicies) > 0
  /\ train_sampler = "raised" => Len(train_indicies) = 0
  /\ val_sampler = "ready" => Len(val_indicies) > 0
  /\ val_sampler = "raised" => Len(val_indicies) = 0

\* one composition, split 0.05: the split returned an empty training set,
\* sampler(train) raised and sampler(val) did not
C6_Witness ==
  /\ vs_pc = "returned"
  /\ vs_len = 1 /\ vs_split = 1
  /\ train_sampler = "raised"
  /\ val_sampler = "ready"

(* -------------------------- SpecLoad: load ----------------------------- *)

\* the files of a style that load keeps, in file order, as (file, length)
RECURSIVE Accepted(_, _)
Accepted(fs, k) ==
  IF k > Len(fs) THEN << >>
  ELSE IF ~fs[k].raises /\ fs[k].len >= SEQ_LEN
    THEN << << k - 1, fs[k].len >> >> \o Accepted(fs, k + 1)
    ELSE Accepted(fs, k + 1)

\* C7: whatever the files do (parse failure, too short, accepted), also
\* when no file of a style is accepted, load does not abort and returns,
\* per style, exactly the accepted compositions in file order.
C7_LoadNeverAborts ==
  /\ ld_pc # "ZeroDivisionError"
  /\ ld_pc = "returned" =>
       /\ Len(style_seqs) = Len(files)
       /\ \A s \in 1..Len(files) : style_seqs[s] = Accepted(files[s], 1)

====
